---- MODULE Spec2Model ----
(***************************************************************************)
(* Model of fastly/block_fastly_service_v1_logging_kafka.go: the handler   *)
(* of the logging_kafka block (Process, Read, createKafka, deleteKafka,    *)
(* flattenKafka, buildCreate, buildDelete) together with the SetDiff       *)
(* utility it calls (NewSetDiff / Diff / Filter).                          *)
(*                                                                         *)
(* A block of the set is a map with the fields name, topic and use_tls     *)
(* (one required string, one string and one bool of the nineteen schema    *)
(* fields: every other field is handled by a copy of the same statement).  *)
(* The remote API is the environment: each call returns nil or an error.   *)
(***************************************************************************)
EXTENDS Integers, Sequences, FiniteSets, TLC

VARIABLES
    pc,             \* "idle", "process" (inside Process), "done"
    handler,        \* which handler ran: "none", "Process", "Read"
    serviceID,      \* d.Id()
    latestVersion,  \* latestVersion (Process) / s.ActiveVersion.Number (Read)
    oldSet,         \* old side of d.GetChange("logging_kafka")
    newSet,         \* new side of d.GetChange("logging_kafka")
    diffResult,     \* result of setDiff.Diff(oldSet, newSet)
    pending,        \* the part of diffResult the three loops have not visited
    calls,          \* the API calls issued so far, in order, with their answers
    stateAttr,      \* value of d.Set("logging_kafka", ...) made by Read
    ret             \* the handler's return value

vars == <<pc, handler, serviceID, latestVersion, oldSet, newSet, diffResult,
          pending, calls, stateAttr, ret>>

----------------------------------------------------------------------------
(* Bounds of the model *)

\* largest number of blocks in the old and in the new set
MaxSetSize == 2
\* longest list ListKafkas answers with
MaxListLen == 1

----------------------------------------------------------------------------
(* Values *)

ServiceIDs == {"svcA", "svcB"}
Versions   == {1, 2}
\* "" is the name of the defunct entries GetChange can return (SDK issue 160)
Names      == {"", "a", "b"}
Topics     == {"t1", "t2"}

\* the non-name fields of a block
Fields == {"topic", "use_tls"}

\* a block of the set: map[string]interface{}
Maps == [kind : {"map"}, name : Names, topic : Topics, use_tls : BOOLEAN]
\* an element of the set that is not a map[string]interface{}
NotAMap == [kind |-> "other", name |-> "", topic |-> "", use_tls |-> FALSE]
Elements == Maps \cup {NotAMap}

\* error values
NilErr == [kind |-> "nil", status |-> 0, msg |-> ""]
HTTPError(code) == [kind |-> "http", status |-> code, msg |-> "http"]
NetErr == [kind |-> "net", status |-> 0, msg |-> "net"]
\* fmt.Errorf(format, ...): a new error value that carries only text
FmtErrorf(text) == [kind |-> "fmt", status |-> 0, msg |-> text]

\* what a call of the API client can return as its error
ApiErrors == {NilErr, HTTPError(404), HTTPError(500), NetErr}

\* a handler that has not returned
NoReturn == [kind |-> "none", status |-> 0, msg |-> ""]
\* a pointer field of UpdateKafkaInput: <<>> is nil, <<v>> points to v
Unset == <<>>
Ptr(v) == <<v>>

----------------------------------------------------------------------------
(* The key extractor Process hands to NewSetDiff *)

\* KeyFunc keyed by another field than the name
KeyFuncByTopic(resource) ==
    IF resource.kind # "map"
    THEN [key |-> "", err |-> FmtErrorf("resource failed to be type asserted")]
    ELSE [key |-> resource.topic, err |-> NilErr]

\* KeyFunc reading a key no block has: every block gets the same (nil) key
KeyFuncNoName(resource) ==
    IF resource.kind # "map"
    THEN [key |-> "", err |-> FmtErrorf("resource failed to be type asserted")]
    ELSE [key |-> "", err |-> NilErr]

\* KeyFunc without the check of the type assertion
KeyFuncUnchecked(resource) == [key |-> resource.name, err |-> NilErr]

\* the closure of Process: the key of a block is its "name"; an element that
\* is not a map yields an error
KeyFunc(resource) ==
    IF resource.kind # "map"
    THEN [key |-> "", err |-> FmtErrorf("resource failed to be type asserted")]
    ELSE [key |-> resource.name, err |-> NilErr]

----------------------------------------------------------------------------
(* SetDiff: the set reconciliation utility *)

\* the keys of the elements of a set
Keys(set) == {KeyFunc(e).key : e \in set}

\* the set as a lookup table from key to element
SetMap(set) == [k \in Keys(set) |-> CHOOSE e \in set : KeyFunc(e).key = k]

\* setDiff.Diff(oldSet, newSet): Added (in new, not in old), Deleted (in old,
\* not in new), Modified (in both, differing; the new element); a failed key
\* extraction aborts the diff with the extractor's error
Diff(old, new) ==
    LET failed == {e \in old \cup new : KeyFunc(e).err # NilErr}
        oldSetMap == SetMap(old)
        newSetMap == SetMap(new)
    IN  IF failed # {}
        THEN [err |-> KeyFunc(CHOOSE e \in failed : TRUE).err,
              Added |-> {}, Deleted |-> {}, Modified |-> {}]
        ELSE [err |-> NilErr,
              Added |-> {newSetMap[k] : k \in Keys(new) \ Keys(old)},
              Deleted |-> {oldSetMap[k] : k \in Keys(old) \ Keys(new)},
              Modified |-> {newSetMap[k] : k \in
                               {j \in Keys(new) \cap Keys(old) :
                                    oldSetMap[j] # newSetMap[j]}}]

\* setDiff.Filter(resource, oldSet): the fields of the modified block whose
\* value differs from the old block of the same name, with their new values
Filter(modified, old) ==
    LET same == {m \in old : m.kind = "map" /\ m.name = modified.name}
        changed == {f \in Fields : \E m \in same : m[f] # modified[f]}
    IN  [f \in changed |-> modified[f]]

----------------------------------------------------------------------------
(* Request builders and API wrappers *)

\* buildDelete taking the name from the wrong field
BuildDeleteByTopic(df, sid, ver) ==
    [ServiceID |-> sid, ServiceVersion |-> ver, Name |-> df.topic]

\* gofastly.DeleteKafkaInput built from a block
buildDelete(df, sid, ver) ==
    [ServiceID |-> sid, ServiceVersion |-> ver, Name |-> df.name]

\* buildCreate taking the name from the wrong field
BuildCreateByTopic(df, sid, ver) ==
    [ServiceID |-> sid, ServiceVersion |-> ver, Name |-> df.topic,
     Topic |-> df.topic, UseTLS |-> df.use_tls]

\* buildCreate addressing the version after the one of the pass
BuildCreateNextVersion(df, sid, ver) ==
    [ServiceID |-> sid, ServiceVersion |-> ver + 1, Name |-> df.name,
     Topic |-> df.topic, UseTLS |-> df.use_tls]

\* gofastly.CreateKafkaInput built from a block
buildCreate(df, sid, ver) ==
    [ServiceID |-> sid, ServiceVersion |-> ver, Name |-> df.name,
     Topic |-> df.topic, UseTLS |-> df.use_tls]

\* the create loop without its guard
NameMissingNever(resource) == FALSE

\* the guard of the create loop: the block has no name or an empty one
\* (every block of the model carries the key "name")
NameMissing(resource) == resource.name = ""

\* an update that sends the topic whether it changed or not
UpdateOptsFull(resource, modified, sid, ver) ==
    [ServiceID |-> sid, ServiceVersion |-> ver, Name |-> resource.name,
     Topic |-> Ptr(resource.topic),
     UseTLS |-> IF "use_tls" \in DOMAIN modified
                THEN Ptr(modified["use_tls"]) ELSE Unset]

\* gofastly.UpdateKafkaInput of the update loop: the identity of the block
\* and a pointer for every field the filtered map holds
UpdateOpts(resource, modified, sid, ver) ==
    [ServiceID |-> sid, ServiceVersion |-> ver, Name |-> resource.name,
     Topic |-> IF "topic" \in DOMAIN modified
               THEN Ptr(modified["topic"]) ELSE Unset,
     UseTLS |-> IF "use_tls" \in DOMAIN modified
                THEN Ptr(modified["use_tls"]) ELSE Unset]

\* createKafka wrapping the client's error in a new one
CreateKafkaWrapped(apiErr) ==
    IF apiErr = NilErr THEN NilErr ELSE FmtErrorf("create failed: " \o apiErr.msg)

\* createKafka: the error of conn.CreateKafka, as it is
createKafka(apiErr) == apiErr

\* deleteKafka without the exception for status 404
DeleteKafkaStrict(apiErr) == apiErr

\* deleteKafka: an HTTPError of status 404 becomes nil, every other error of
\* conn.DeleteKafka is returned
deleteKafka(apiErr) ==
    IF apiErr.kind = "http"
    THEN (IF apiErr.status # 404 THEN apiErr ELSE NilErr)
    ELSE (IF apiErr # NilErr THEN apiErr ELSE NilErr)

\* the error Read returns for a failed ListKafkas
ReadListError(err) ==
    FmtErrorf("[ERR] Error looking up Kafka logging endpoints: " \o err.msg)

\* the string-typed keys of a flattened endpoint
StringKeys == {"name", "topic"}

\* what ListKafkas can answer with: *gofastly.Kafka values
Kafkas == [Name : {"a", "b"}, Topic : {"", "t1"}, UseTLS : BOOLEAN]

RECURSIVE SeqsUpTo(_, _)
\* the sequences over S of length at most n
SeqsUpTo(S, n) ==
    IF n = 0 THEN {<<>>}
    ELSE LET shorter == SeqsUpTo(S, n - 1)
         IN  shorter \cup {Append(q, x) : q \in shorter, x \in S}

\* one endpoint of flattenKafka: the map of its fields without the keys whose
\* value is the empty string
FlattenOne(k) ==
    LET flatKafka == [name |-> k.Name, topic |-> k.Topic, use_tls |-> k.UseTLS]
        kept == {f \in DOMAIN flatKafka :
                    ~(f \in StringKeys /\ flatKafka[f] = "")}
    IN  [f \in kept |-> flatKafka[f]]

\* flattenKafka
flattenKafka(kafkaList) ==
    [i \in 1..Len(kafkaList) |-> FlattenOne(kafkaList[i])]

----------------------------------------------------------------------------
(* The handlers *)

\* the sets GetChange can hand to Process: at most MaxSetSize elements, no
\* two blocks of one set with the same name
InputSets ==
    {s \in SUBSET Elements :
        /\ Cardinality(s) <= MaxSetSize
        /\ \A x, y \in s : (x.kind = "map" /\ y.kind = "map" /\ x.name = y.name)
                              => x = y}

NoDiff == [err |-> NilErr, Added |-> {}, Deleted |-> {}, Modified |-> {}]
NoPending == [Added |-> {}, Deleted |-> {}, Modified |-> {}]

Init ==
    /\ pc = "idle"
    /\ handler = "none"
    /\ serviceID = ""
    /\ latestVersion = 0
    /\ oldSet = {}
    /\ newSet = {}
    /\ diffResult = NoDiff
    /\ pending = NoPending
    /\ calls = <<>>
    /\ stateAttr = <<>>
    /\ ret = NoReturn

\* Process, up to the first loop: GetChange, NewSetDiff, Diff and the return
\* of the diff's error
ProcessDiff ==
    /\ pc = "idle"
    /\ \E sid \in ServiceIDs, ver \in Versions, old \in InputSets, new \in InputSets :
          LET d == Diff(old, new)
          IN  /\ handler' = "Process"
              /\ serviceID' = sid
              /\ latestVersion' = ver
              /\ oldSet' = old
              /\ newSet' = new
              /\ diffResult' = d
              /\ IF d.err # NilErr
                 THEN /\ ret' = d.err
                      /\ pc' = "done"
                      /\ pending' = NoPending
                 ELSE /\ ret' = NoReturn
                      /\ pc' = "process"
                      /\ pending' = [Added |-> d.Added, Deleted |-> d.Deleted,
                                     Modified |-> d.Modified]
    /\ UNCHANGED <<calls, stateAttr>>

\* one iteration of the loop over diffResult.Deleted
ProcessDelete ==
    /\ pc = "process"
    /\ pending.Deleted # {}
    /\ \E resource \in pending.Deleted, apiErr \in ApiErrors :
          LET opts == buildDelete(resource, serviceID, latestVersion)
              err == deleteKafka(apiErr)
          IN  /\ calls' = Append(calls, [op |-> "delete", opts |-> opts, err |-> apiErr])
              /\ IF err # NilErr
                 THEN /\ ret' = err
                      /\ pc' = "done"
                      /\ UNCHANGED pending
                 ELSE /\ pending' = [pending EXCEPT !.Deleted = @ \ {resource}]
                      /\ UNCHANGED <<ret, pc>>
    /\ UNCHANGED <<handler, serviceID, latestVersion, oldSet, newSet, diffResult, stateAttr>>

\* one iteration of the loop over diffResult.Added
ProcessCreate ==
    /\ pc = "process"
    /\ pending.Deleted = {}
    /\ pending.Added # {}
    /\ \E resource \in pending.Added, apiErr \in ApiErrors :
          IF NameMissing(resource)
          THEN /\ pending' = [pending EXCEPT !.Added = @ \ {resource}]
               /\ UNCHANGED <<calls, ret, pc>>
          ELSE LET opts == buildCreate(resource, serviceID, latestVersion)
                   err == createKafka(apiErr)
               IN  /\ calls' = Append(calls, [op |-> "create", opts |-> opts, err |-> apiErr])
                   /\ IF err # NilErr
                      THEN /\ ret' = err
                           /\ pc' = "done"
                           /\ UNCHANGED pending
                      ELSE /\ pending' = [pending EXCEPT !.Added = @ \ {resource}]
                           /\ UNCHANGED <<ret, pc>>
    /\ UNCHANGED <<handler, serviceID, latestVersion, oldSet, newSet, diffResult, stateAttr>>

\* one iteration of the loop over diffResult.Modified
ProcessUpdate ==
    /\ pc = "process"
    /\ pending.Deleted = {}
    /\ pending.Added = {}
    /\ pending.Modified # {}
    /\ \E resource \in pending.Modified, apiErr \in ApiErrors :
          LET modified == Filter(resource, oldSet)
              opts == UpdateOpts(resource, modified, serviceID, latestVersion)
          IN  /\ calls' = Append(calls, [op |-> "update", opts |-> opts, err |-> apiErr])
              /\ IF apiErr # NilErr
                 THEN /\ ret' = apiErr
                      /\ pc' = "done"
                      /\ UNCHANGED pending
                 ELSE /\ pending' = [pending EXCEPT !.Modified = @ \ {resource}]
                      /\ UNCHANGED <<ret, pc>>
    /\ UNCHANGED <<handler, serviceID, latestVersion, oldSet, newSet, diffResult, stateAttr>>

\* the return nil that ends Process
ProcessReturn ==
    /\ pc = "process"
    /\ pending = NoPending
    /\ ret' = NilErr
    /\ pc' = "done"
    /\ UNCHANGED <<handler, serviceID, latestVersion, oldSet, newSet, diffResult,
                   pending, calls, stateAttr>>

\* Read: ListKafkas, flattenKafka, d.Set
Read ==
    /\ pc = "idle"
    /\ \E sid \in ServiceIDs, ver \in Versions, apiErr \in ApiErrors,
          kafkaList \in SeqsUpTo(Kafkas, MaxListLen), setOk \in BOOLEAN :
          /\ handler' = "Read"
          /\ serviceID' = sid
          /\ latestVersion' = ver
          /\ calls' = Append(calls, [op |-> "list",
                                     opts |-> [ServiceID |-> sid, ServiceVersion |-> ver],
                                     err |-> apiErr])
          /\ IF apiErr # NilErr
             THEN /\ ret' = ReadListError(apiErr)
                  /\ UNCHANGED stateAttr
             ELSE /\ ret' = NilErr
                  /\ stateAttr' = IF setOk THEN flattenKafka(kafkaList) ELSE stateAttr
    /\ pc' = "done"
    /\ UNCHANGED <<oldSet, newSet, diffResult, pending>>

Next ==
    \/ ProcessDiff
    \/ ProcessDelete
    \/ ProcessCreate
    \/ ProcessUpdate
    \/ ProcessReturn
    \/ Read

Spec == Init /\ [][Next]_vars

----------------------------------------------------------------------------
(* Vocabulary of the properties *)

NamesOf(set) == {e.name : e \in set}
AllMaps == \A e \in oldSet \cup newSet : e.kind = "map"
\* two blocks differ in at least one field other than the name
Differ(o, n) == o.topic # n.topic \/ o.use_tls # n.use_tls
OldOnly == {o \in oldSet : o.name \notin NamesOf(newSet)}
NewOnly == {n \in newSet : n.name \notin NamesOf(oldSet)}
Changed == {n \in newSet : \E o \in oldSet : o.name = n.name /\ Differ(o, n)}
Unchanged == {n \in newSet : \E o \in oldSet : o.name = n.name /\ ~Differ(o, n)}

CallsOf(op) == {i \in 1..Len(calls) : calls[i].op = op}
CallNames(op) == {calls[i].opts.Name : i \in CallsOf(op)}
\* the call made the pass fail: an error other than a 404 answer to a delete
Failed(i) ==
    /\ calls[i].err # NilErr
    /\ ~(calls[i].op = "delete" /\ calls[i].err = HTTPError(404))
\* Process has returned nil
ProcessReturnedNil == handler = "Process" /\ pc = "done" /\ ret = NilErr
\* Process has returned nil and every API call of the pass succeeded
ProcessAllSucceeded ==
    ProcessReturnedNil /\ \A i \in 1..Len(calls) : calls[i].err = NilErr

----------------------------------------------------------------------------
(* C1: the diff Process uses puts a block in Added exactly when its name is *)
(* in the new set and not in the old set, in Deleted exactly when its name  *)
(* is in the old set and not in the new set, and in Modified exactly when   *)
(* its name is in both sets and the two blocks differ in a field.           *)
C1_DiffByName ==
    (handler = "Process" /\ AllMaps) =>
        /\ diffResult.err = NilErr
        /\ diffResult.Added = NewOnly
        /\ diffResult.Deleted = OldOnly
        /\ diffResult.Modified = Changed

C1_Witness ==
    /\ handler = "Process"
    /\ AllMaps
    /\ diffResult.Added # {}
    /\ diffResult.Deleted # {}
    /\ diffResult.Modified # {}

(* C2: with blocks identified by their key, Added, Modified and the        *)
(* unchanged blocks make up the new set, Deleted, Modified and the         *)
(* unchanged blocks make up the old set, and no block is in two of the     *)
(* four partitions.                                                        *)
C2_Partition ==
    (handler = "Process" /\ AllMaps) =>
        LET A == diffResult.Added
            D == diffResult.Deleted
            M == diffResult.Modified
            U == oldSet \cap newSet
        IN  /\ A \cup M \cup U = newSet
            /\ D \cup {o \in oldSet : o.name \in NamesOf(M)} \cup U = oldSet
            /\ NamesOf(A) \cup NamesOf(M) \cup NamesOf(U) = NamesOf(newSet)
            /\ NamesOf(D) \cup NamesOf(M) \cup NamesOf(U) = NamesOf(oldSet)
            /\ NamesOf(A) \cap NamesOf(D) = {}
            /\ NamesOf(A) \cap NamesOf(M) = {}
            /\ NamesOf(A) \cap NamesOf(U) = {}
            /\ NamesOf(D) \cap NamesOf(M) = {}
            /\ NamesOf(D) \cap NamesOf(U) = {}
            /\ NamesOf(M) \cap NamesOf(U) = {}

C2_Witness ==
    /\ handler = "Process"
    /\ AllMaps
    /\ diffResult.Modified # {}
    /\ oldSet \cap newSet # {}

(* C3, as stated: in a pass in which every API call succeeds, every block   *)
(* absent from the prior state and present in the desired state is created, *)
(* every block in both with changed fields is updated, every block in the   *)
(* prior state only is deleted, and an unchanged block receives no call.    *)
C3_Original ==
    ProcessAllSucceeded =>
        /\ CallNames("create") = NamesOf(NewOnly)
        /\ CallNames("update") = NamesOf(Changed)
        /\ CallNames("delete") = NamesOf(OldOnly)
        /\ Len(calls) = Cardinality(NewOnly) + Cardinality(Changed) + Cardinality(OldOnly)

(* C3, amended: the same, but a block whose name is empty is created never: *)
(* the blocks created are those absent from the prior state and present in  *)
(* the desired state under a non-empty name.                                *)
C3_Lifecycle ==
    ProcessAllSucceeded =>
        LET Creatable == {n \in NewOnly : n.name # ""}
        IN  /\ CallNames("create") = NamesOf(Creatable)
            /\ CallNames("update") = NamesOf(Changed)
            /\ CallNames("delete") = NamesOf(OldOnly)
            /\ Len(calls) = Cardinality(Creatable) + Cardinality(Changed)
                              + Cardinality(OldOnly)
            /\ \A u \in Unchanged : \A i \in 1..Len(calls) : calls[i].opts.Name # u.name

C3_Witness ==
    /\ ProcessAllSucceeded
    /\ CallsOf("create") # {}
    /\ CallsOf("delete") # {}
    /\ Unchanged # {}

(* C4: a delete call answered by an HTTP error of status 404 does not fail  *)
(* the pass, which goes on to the remaining operations and runs to its end  *)
(* when nothing else fails; every other error of a delete call, HTTP of     *)
(* another status or not HTTP, ends the pass and is what Process returns.   *)
C4_DeleteNotFound ==
    /\ \A i \in CallsOf("delete") :
          IF calls[i].err \in {NilErr, HTTPError(404)}
          THEN /\ calls[i].opts.Name \notin NamesOf(pending.Deleted)
               /\ (pc = "done" /\ i = Len(calls)) => ret = NilErr
          ELSE /\ i = Len(calls)
               /\ pc = "done"
               /\ ret = calls[i].err
    /\ (handler = "Process" /\ pc = "done" /\ AllMaps
           /\ \A i \in 1..Len(calls) : ~Failed(i)) =>
          /\ ret = NilErr
          /\ CallNames("delete") = NamesOf(OldOnly)
          /\ CallNames("create") = NamesOf(NewOnly) \ {""}
          /\ CallNames("update") = NamesOf(Changed)

C4_Witness ==
    /\ ProcessReturnedNil
    /\ \E i \in CallsOf("delete") :
          /\ calls[i].err = HTTPError(404)
          /\ i < Len(calls)

(* C5, as stated: when a create, update, delete or list call fails (other   *)
(* than a delete answered 404), the handler returns the very error value    *)
(* the API client returned.                                                 *)
C5_Original ==
    \A i \in 1..Len(calls) :
        Failed(i) => (pc = "done" /\ ret = calls[i].err)

(* C5, amended: Process returns the very error value of the failed create,  *)
(* update or delete call; Read returns, for a failed list call, a new error *)
(* made by fmt.Errorf whose text embeds the text of the client's error.     *)
C5_ErrorsPropagate ==
    \A i \in 1..Len(calls) :
        Failed(i) =>
            /\ pc = "done"
            /\ calls[i].op \in {"create", "update", "delete"} => ret = calls[i].err
            /\ calls[i].op = "list" =>
                  /\ ret.kind = "fmt"
                  /\ ret # calls[i].err
                  /\ ret # NilErr

C5_Witness ==
    /\ handler = "Process"
    /\ pc = "done"
    /\ Len(calls) = 2
    /\ calls[1].op = "delete"
    /\ calls[2].op = "create"
    /\ calls[2].err = HTTPError(404)
    /\ ret = HTTPError(404)

(* C6: when an element of the old or of the new set is not a map, Process   *)
(* returns the key extractor's error and issues no API call.                *)
C6_ExtractionFailure ==
    (handler = "Process" /\ ~AllMaps) =>
        /\ pc = "done"
        /\ ret = FmtErrorf("resource failed to be type asserted")
        /\ diffResult.err = ret
        /\ calls = <<>>

C6_Witness ==
    /\ handler = "Process"
    /\ \E e \in newSet : e.kind # "map"
    /\ \E o \in oldSet : o.kind = "map" /\ o.name = "a"
    /\ \E n \in newSet : n.kind = "map" /\ n.name = "b"
    /\ pc = "done"

(* C7: every update request carries the name of a block of both sets, the   *)
(* service ID and the service version, and sets a field exactly when the    *)
(* new block's value of it differs from the old block's, to the new value;  *)
(* every Modified block the update loop has visited has its request.        *)
C7_UpdateOnlyChanged ==
    /\ \A i \in CallsOf("update") :
          LET opts == calls[i].opts
          IN  /\ opts.ServiceID = serviceID
              /\ opts.ServiceVersion = latestVersion
              /\ \E o \in oldSet, n \in newSet :
                    /\ o.name = opts.Name
                    /\ n.name = opts.Name
                    /\ opts.Topic = (IF n.topic # o.topic THEN <<n.topic>> ELSE <<>>)
                    /\ opts.UseTLS = (IF n.use_tls # o.use_tls THEN <<n.use_tls>> ELSE <<>>)
    /\ handler = "Process" =>
          \A r \in diffResult.Modified \ pending.Modified :
              r.name \in CallNames("update")

C7_Witness ==
    \E i \in CallsOf("update") :
        /\ calls[i].opts.Topic # <<>>
        /\ calls[i].opts.UseTLS = <<>>
        /\ calls[i].err = NilErr

(* C8, as stated: when the name of a block changes between the prior and    *)
(* the desired state, the pass deletes the endpoint under the old name and  *)
(* creates one under the new name and issues no update for either name;     *)
(* blocks of the same name are one endpoint: no delete and no create.       *)
C8_Original ==
    ProcessReturnedNil =>
        /\ \A o \in OldOnly, n \in NewOnly :
              /\ o.name \in CallNames("delete")
              /\ n.name \in CallNames("create")
              /\ o.name \notin CallNames("update")
              /\ n.name \notin CallNames("update")
        /\ \A o \in oldSet, n \in newSet :
              o.name = n.name =>
                  /\ o.name \notin CallNames("delete")
                  /\ o.name \notin CallNames("create")

(* C8, amended: the same, except that nothing is created under an empty new *)
(* name: the old name is deleted and the block of the empty name skipped.   *)
(* In every pass, finished or not, deletes go to names of the prior state   *)
(* only, creates to names of the desired state only, updates to names of    *)
(* both.                                                                    *)
C8_NameKeyed ==
    handler = "Process" =>
        /\ CallNames("delete") \subseteq NamesOf(OldOnly)
        /\ CallNames("create") \subseteq NamesOf(NewOnly)
        /\ CallNames("update") \subseteq NamesOf(oldSet) \cap NamesOf(newSet)
        /\ ProcessReturnedNil =>
              \A o \in OldOnly, n \in NewOnly :
                  /\ o.name \in CallNames("delete")
                  /\ n.name \in CallNames("create") <=> n.name # ""

C8_Witness ==
    /\ ProcessReturnedNil
    /\ \E o \in OldOnly, n \in NewOnly :
          /\ ~Differ(o, n)
          /\ n.name # ""
          /\ o.name \in CallNames("delete")
          /\ n.name \in CallNames("create")
    /\ Unchanged = {}
    /\ Changed # {}

\* the place of an operation in the order of a pass
Rank(op) == CASE op = "delete" -> 1 [] op = "create" -> 2 [] op = "update" -> 3
                 [] OTHER -> 0

(* C9: the calls of a pass are one sequence, deletes before creates before  *)
(* updates, all for the pass's service ID and version; a failing call       *)
(* (other than a delete answered 404) is the last call and its error what   *)
(* Process returns; no operation is issued twice for a name.                *)
C9_CallSequence ==
    handler = "Process" =>
        /\ \A i, j \in 1..Len(calls) :
              i < j => Rank(calls[i].op) <= Rank(calls[j].op)
        /\ \A i \in 1..Len(calls) :
              /\ calls[i].opts.ServiceID = serviceID
              /\ calls[i].opts.ServiceVersion = latestVersion
              /\ Failed(i) => (i = Len(calls) /\ pc = "done" /\ ret = calls[i].err)
        /\ \A i, j \in 1..Len(calls) :
              (calls[i].op = calls[j].op /\ calls[i].opts.Name = calls[j].opts.Name)
                  => i = j
        /\ pc = "done" => ~ENABLED Next

C9_Witness ==
    /\ handler = "Process"
    /\ pc = "done"
    /\ Len(calls) = 3
    /\ calls[1].op = "delete"
    /\ calls[2].op = "create"
    /\ calls[3].op = "update"
    /\ calls[3].err = HTTPError(500)
    /\ pending.Modified # {}

(* C10: no create call carries an empty name; a block of Added whose name   *)
(* is empty is passed over without an error, and the pass goes on to the    *)
(* other Added blocks and to the Modified blocks.                           *)
C10_EmptyNameSkipped ==
    handler = "Process" =>
        /\ \A i \in CallsOf("create") :
              /\ calls[i].opts.Name # ""
              /\ calls[i].opts.Name \in NamesOf(diffResult.Added)
        /\ (pc = "done" /\ ret # NilErr /\ diffResult.err = NilErr) =>
              (Len(calls) > 0 /\ ret = calls[Len(calls)].err)
        /\ ProcessReturnedNil =>
              /\ \A r \in diffResult.Added : r.name # "" => r.name \in CallNames("create")
              /\ \A r \in diffResult.Modified : r.name \in CallNames("update")

C10_Witness ==
    /\ ProcessReturnedNil
    /\ "" \in NamesOf(diffResult.Added)
    /\ CallsOf("update") # {}

====
